---- MODULE Spec2Model ----
(***************************************************************************)
(* slack-purge (src/app.py): the rate-limited Slack client, the message    *)
(* collector, the purge job and its capped log, as state machines.         *)
(*                                                                         *)
(* Seven specifications share the variables of this module:                *)
(*   SpecReq    one slack_request call, attempt by attempt                 *)
(*   SpecLog    add_log on one job record, statement by statement, with    *)
(*              concurrent api_purge_status readers                        *)
(*   SpecFetch  one fetch_user_messages_api call, message by message       *)
(*   SpecOrder  SpecFetch, with the order in which thread parents are met  *)
(*   SpecPurge  api_purge, request by request                              *)
(*   Spec       api_purge and the run_purge thread of the job it starts    *)
(*   SpecLive   the job of Spec under fair scheduling of its thread        *)
(* A specification leaves the variables it does not follow at their idle   *)
(* values.                                                                 *)
(***************************************************************************)
EXTENDS Integers, Sequences, FiniteSets, TLC

\* ------------------------------------------------------------------------
\* Bounds of the model
\* ------------------------------------------------------------------------
MaxRetries == 3
MaxAppends == 502
MaxPages == 2
MaxDelivered == 2
MaxConversations == 2
MaxMessages == 2

\* ------------------------------------------------------------------------
\* Program constants
\* ------------------------------------------------------------------------
DefaultRetries == 3
DefaultRetryAfter == 30
LogCap == 500
DefaultLastLog == 50
DaySeconds == 86400

Min(a, b) == IF a < b THEN a ELSE b

\* An optional value (Python's None, a missing dict key or header) is the empty
\* set; a present value x is {x}.
None == {}
Some(x) == {x}
Get(o) == CHOOSE x \in o : TRUE

\* ------------------------------------------------------------------------
\* State
\* ------------------------------------------------------------------------
VARIABLES
    \* slack_request
    rq_retries,     \* the `retries` argument
    rq_attempt,     \* the loop variable `attempt` (number of attempts begun)
    rq_trace,       \* what the call did so far: requests issued and sleeps
    rq_result,      \* NoResult while in the loop, then the returned value
    \* add_log / api_purge_status on one job record
    lg_log,         \* job["log"]
    lg_pc,          \* position of the job's task inside add_log
    lg_calls,       \* number of add_log calls begun
    lg_resp,        \* the response of the status read made in this step
    \* fetch_user_messages_api
    f_oldest,       \* the `oldest` argument (None or a timestamp)
    f_latest,       \* the `latest` argument
    f_pc,           \* position inside the function
    f_user_messages,
    f_thread_parents,
    f_seen_ts,
    f_pages,        \* pages of the current listing fetched so far
    f_todo,         \* thread parents the `for` loop has not visited yet
    f_thread,       \* the loop variable `thread_ts`
    f_delivered,    \* messages the provider has returned during this call
    f_expected,     \* ts of the delivered messages that qualify for collection
    f_dups,         \* where an authored message was delivered a second time
    f_result,       \* NoResult, then the returned list or Raised
    f_discovery,    \* SpecOrder: the thread parents in the order they were met
    \* the job store and the background tasks
    purge_jobs,     \* job_id -> job record
    task,           \* job_id -> locals and position of the job's run_purge thread
    http_resp       \* the response of the request handled in this step

rqVars == <<rq_retries, rq_attempt, rq_trace, rq_result>>
lgVars == <<lg_log, lg_pc, lg_calls, lg_resp>>
fVars == <<f_oldest, f_latest, f_pc, f_user_messages, f_thread_parents, f_seen_ts,
           f_pages, f_todo, f_thread, f_delivered, f_expected, f_dups, f_result>>
jobVars == <<purge_jobs, task, http_resp>>
vars == <<rqVars, lgVars, fVars, f_discovery, jobVars>>

\* ========================================================================
\* slack_request
\* ========================================================================
NoResult == [returned |-> FALSE]
Returned(v) == [returned |-> TRUE, raised |-> FALSE, value |-> v]
Raised == [returned |-> TRUE, raised |-> TRUE]

\* The Retry-After header of a rate-limit response: absent, or a number of
\* seconds.
RetryAfterHeaders == {None, Some(1), Some(5)}

\* int(headers.get("Retry-After", 30))
RetryAfter(hdr) == IF hdr = None THEN DefaultRetryAfter ELSE Get(hdr)

ErrorCodes == {"channel_not_found", "unknown"}
HttpCodes == {500}

RequestEv(r) == [ev |-> "request", resp |-> r]
SleepEv(s) == [ev |-> "sleep", secs |-> s]

InLoop == rq_result = NoResult /\ rq_attempt < rq_retries

RqIdle ==
    /\ rq_retries = 0
    /\ rq_attempt = 0
    /\ rq_trace = <<>>
    /\ rq_result = NoResult

RqInit ==
    /\ rq_retries \in 0..MaxRetries
    /\ rq_attempt = 0
    /\ rq_trace = <<>>
    /\ rq_result = NoResult

\* urlopen answers 200 with {"ok": true, ...}: the body is returned
RequestOk ==
    /\ InLoop
    /\ rq_attempt' = rq_attempt + 1
    /\ rq_trace' = Append(rq_trace, RequestEv([kind |-> "ok"]))
    /\ rq_result' = Returned([ok |-> TRUE])
    /\ UNCHANGED rq_retries

\* 200 with {"ok": false, "error": e}, e other than "ratelimited"
RequestInbandError ==
    /\ InLoop
    /\ \E e \in ErrorCodes :
        /\ rq_trace' = Append(rq_trace, RequestEv([kind |-> "error", error |-> e]))
        /\ rq_result' = Returned([ok |-> FALSE, error |-> e])
    /\ rq_attempt' = rq_attempt + 1
    /\ UNCHANGED rq_retries

\* (faulty variant: the retry is issued at once, without the sleep)
RateLimitSleep_NoSleep(trace, hdr) == trace

\* what one rate-limit signal does: sleep retry_after, then `continue`
RateLimitSleep(trace, hdr) == Append(trace, SleepEv(RetryAfter(hdr)))

\* 200 with {"ok": false, "error": "ratelimited"}
RequestRateLimitedInband ==
    /\ InLoop
    /\ \E hdr \in RetryAfterHeaders :
        rq_trace' = RateLimitSleep(
            Append(rq_trace, RequestEv([kind |-> "ratelimited", hdr |-> hdr])), hdr)
    /\ rq_attempt' = rq_attempt + 1
    /\ UNCHANGED <<rq_retries, rq_result>>

\* HTTPError with code 429
RequestRateLimited429 ==
    /\ InLoop
    /\ \E hdr \in RetryAfterHeaders :
        rq_trace' = RateLimitSleep(
            Append(rq_trace, RequestEv([kind |-> "http429", hdr |-> hdr])), hdr)
    /\ rq_attempt' = rq_attempt + 1
    /\ UNCHANGED <<rq_retries, rq_result>>

\* HTTPError with another code: {"ok": False, "error": str(e)}
RequestHttpError ==
    /\ InLoop
    /\ \E c \in HttpCodes :
        /\ rq_trace' = Append(rq_trace, RequestEv([kind |-> "http_error", code |-> c]))
        /\ rq_result' = Returned([ok |-> FALSE, error |-> "http_error"])
    /\ rq_attempt' = rq_attempt + 1
    /\ UNCHANGED rq_retries

\* urlopen or json.loads raises something that is not an HTTPError (URLError,
\* a timeout, a body that is not JSON): no except clause matches
RequestOtherFailure ==
    /\ InLoop
    /\ rq_trace' = Append(rq_trace, RequestEv([kind |-> "exception"]))
    /\ rq_result' = Raised
    /\ rq_attempt' = rq_attempt + 1
    /\ UNCHANGED rq_retries

\* the for loop ran out of attempts
RequestExhausted ==
    /\ rq_result = NoResult
    /\ rq_attempt >= rq_retries
    /\ rq_result' = Returned([ok |-> FALSE, error |-> "max_retries"])
    /\ UNCHANGED <<rq_retries, rq_attempt, rq_trace>>

slack_request ==
    \/ RequestOk
    \/ RequestInbandError
    \/ RequestRateLimitedInband
    \/ RequestRateLimited429
    \/ RequestHttpError
    \/ RequestOtherFailure
    \/ RequestExhausted

\* ========================================================================
\* add_log and api_purge_status
\* ========================================================================
NoResp == [status |-> 0]
NotFound == [status |-> 404]
Snapshot(last_n, tail) == [status |-> 200, last_n |-> last_n, log |-> tail]

\* job["log"].append({...})
LogAppend(log, message) == Append(log, message)

\* (faulty variant: the slice keeps the oldest entries, log[:500])
LogTruncate_KeepOldest(log) ==
    IF Len(log) > LogCap THEN SubSeq(log, 1, LogCap) ELSE log

\* if len(job["log"]) > 500: job["log"] = job["log"][-500:]
LogTruncate(log) ==
    IF Len(log) > LogCap THEN SubSeq(log, Len(log) - LogCap + 1, Len(log)) ELSE log

add_log(log, message) == LogTruncate(LogAppend(log, message))

\* log[-n:] as Python slices: -0 is 0, so n = 0 is the whole list; a negative
\* n drops the first -n entries
PySliceLast(log, n) ==
    IF n > 0 THEN SubSeq(log, Len(log) - Min(n, Len(log)) + 1, Len(log))
    ELSE SubSeq(log, Min(-n, Len(log)) + 1, Len(log))

LastLogArgs == {-1, 0, 1, DefaultLastLog, LogCap + 100}

\* the job whose log SpecLog follows, and an id the store does not hold
LogJobId == "j1"
UnknownJobId == "zz"

LgIdle ==
    /\ lg_log = <<>>
    /\ lg_pc = "idle"
    /\ lg_calls = 0
    /\ lg_resp = NoResp

LgInit == LgIdle

\* first statement of add_log; the message is the number of the call
AddLogAppend ==
    /\ lg_pc = "idle"
    /\ lg_calls < MaxAppends
    /\ lg_calls' = lg_calls + 1
    /\ lg_log' = LogAppend(lg_log, lg_calls + 1)
    /\ lg_pc' = "appended"
    /\ lg_resp' = NoResp

\* second statement of add_log
AddLogTruncate ==
    /\ lg_pc = "appended"
    /\ lg_log' = LogTruncate(lg_log)
    /\ lg_pc' = "idle"
    /\ lg_resp' = NoResp
    /\ UNCHANGED lg_calls

\* api_purge_status, from a request thread: purge_jobs.get(job_id), then the
\* snapshot with job["log"][-last_n:]
ApiPurgeStatus ==
    /\ \E job_id \in {LogJobId, UnknownJobId}, last_n \in LastLogArgs :
        lg_resp' = IF job_id = LogJobId
                   THEN Snapshot(last_n, PySliceLast(lg_log, last_n))
                   ELSE NotFound
    /\ UNCHANGED <<lg_log, lg_pc, lg_calls>>

\* ========================================================================
\* fetch_user_messages_api
\* ========================================================================
\* Timestamps are integers here (a Slack ts is a decimal string that float()
\* reads as a number); a message with no "ts" key has ts = None, which
\* msg.get("ts", "") turns into "" and float("") rejects with ValueError.
TsSet == {1, 2, 3, 4}
Me == "U_me"
Users == {Me, "U_other"}
SystemSubtypes ==
    {"channel_join", "channel_leave", "channel_topic", "channel_purpose", "bot_message"}
Subtypes == {"", "channel_join"}

\* the messages a provider response can carry (the text is left out: it is
\* copied, truncated to 100 characters, and never read by the collector)
Messages ==
    [ts : {None} \cup {Some(t) : t \in TsSet},
     user : Users,
     subtype : Subtypes,
     thread_ts : {None} \cup {Some(t) : t \in TsSet},
     reply_count : {0, 1}]

\* the (oldest, latest) arguments run_purge makes the call with: api_purge sets
\* both (modes date and range) or neither (mode all)
Windows == {<<None, None>>, <<Some(2), Some(3)>>}

\* params of the conversations.history call
HistoryParams(oldest, latest) ==
    [oldest |-> oldest, latest |-> latest, inclusive |-> latest # None]

\* conversations.history returns only messages inside the window it was asked
\* for: bounds included when inclusive is set, excluded otherwise
HistoryMayReturn(msg, p) ==
    \/ p.oldest = None /\ p.latest = None
    \/ /\ msg.ts # None
       /\ p.oldest # None =>
            IF p.inclusive THEN Get(msg.ts) >= Get(p.oldest)
                           ELSE Get(msg.ts) > Get(p.oldest)
       /\ p.latest # None =>
            IF p.inclusive THEN Get(msg.ts) <= Get(p.latest)
                           ELSE Get(msg.ts) < Get(p.latest)

\* float(ts) succeeds
IsNumber(ts) == ts # None

\* if msg.get("reply_count", 0) > 0: thread_parents.add(ts)
\* if msg.get("thread_ts") and msg["thread_ts"] != ts: thread_parents.add(...)
HistoryThreadParents(parents, msg) ==
    parents
        \cup (IF msg.reply_count > 0 THEN {msg.ts} ELSE {})
        \cup (IF msg.thread_ts # None /\ msg.thread_ts # msg.ts THEN {msg.thread_ts} ELSE {})

\* the order in which the two thread_parents.add calls meet new parents:
\* first ts (reply_count > 0), then thread_ts
Discovered(order, parents, msg) ==
    LET first == IF msg.reply_count > 0 /\ msg.ts \notin parents
                 THEN <<msg.ts>> ELSE <<>>
        second == IF /\ msg.thread_ts # None /\ msg.thread_ts # msg.ts
                     /\ msg.thread_ts \notin parents \cup {msg.ts}
                  THEN <<msg.thread_ts>> ELSE <<>>
    IN  order \o first \o second

\* (faulty variant: the seen_ts test is missing)
HistoryCollects_NoSeen(msg, seen) ==
    /\ msg.user = Me
    /\ msg.subtype \notin SystemSubtypes

\* if msg.get("user") == user_id and ts not in seen_ts, and the subtype is not
\* a system one
HistoryCollects(msg, seen) ==
    /\ msg.user = Me
    /\ msg.ts \notin seen
    /\ msg.subtype \notin SystemSubtypes

HistoryEntry(msg) ==
    [ts |-> msg.ts,
     thread_ts |-> msg.thread_ts,
     is_thread_reply |-> (msg.thread_ts # None /\ msg.thread_ts # msg.ts)]

\* if ts == thread_ts or ts in seen_ts: continue
\* if msg.get("user") != user_id: continue
RepliesSkips(msg, thread_ts, seen) ==
    \/ msg.ts = thread_ts
    \/ msg.ts \in seen
    \/ msg.user # Me

\* the two float() comparisons raise ValueError on a ts that is no number
RepliesWindowRaises(msg, oldest, latest) ==
    (oldest # None \/ latest # None) /\ ~IsNumber(msg.ts)

\* (faulty variant: the comparisons are <= and >=, the bounds fall outside)
RepliesOutsideWindow_Strict(msg, oldest, latest) ==
    \/ oldest # None /\ Get(msg.ts) <= Get(oldest)
    \/ latest # None /\ Get(msg.ts) >= Get(latest)

\* if oldest and float(ts) < float(oldest): continue
\* if latest and float(ts) > float(latest): continue
RepliesOutsideWindow(msg, oldest, latest) ==
    \/ oldest # None /\ Get(msg.ts) < Get(oldest)
    \/ latest # None /\ Get(msg.ts) > Get(latest)

RepliesEntry(msg, thread_ts) ==
    [ts |-> msg.ts, thread_ts |-> thread_ts, is_thread_reply |-> TRUE]

\* does the window [oldest, latest], bounds included, contain ts
InWindow(ts, oldest, latest) ==
    /\ ts # None
    /\ oldest # None => Get(oldest) <= Get(ts)
    /\ latest # None => Get(ts) <= Get(latest)

FIdle ==
    /\ f_oldest = None
    /\ f_latest = None
    /\ f_pc = "idle"
    /\ f_user_messages = <<>>
    /\ f_thread_parents = {}
    /\ f_seen_ts = {}
    /\ f_pages = 0
    /\ f_todo = {}
    /\ f_thread = None
    /\ f_delivered = 0
    /\ f_expected = {}
    /\ f_dups = {}
    /\ f_result = NoResult
    /\ f_discovery = <<>>

FInit ==
    /\ \E w \in Windows : f_oldest = w[1] /\ f_latest = w[2]
    /\ f_pc = "history_call"
    /\ f_user_messages = <<>>
    /\ f_thread_parents = {}
    /\ f_seen_ts = {}
    /\ f_pages = 0
    /\ f_todo = {}
    /\ f_thread = None
    /\ f_delivered = 0
    /\ f_expected = {}
    /\ f_dups = {}
    /\ f_result = NoResult
    /\ f_discovery = <<>>

fArgs == <<f_oldest, f_latest>>
fLists == <<f_user_messages, f_thread_parents, f_seen_ts, f_expected, f_dups>>

\* slack_request("conversations.history", ...) returns a page
HistoryCallOk ==
    /\ f_pc = "history_call"
    /\ f_pc' = "history_page"
    /\ f_pages' = f_pages + 1
    /\ UNCHANGED <<fArgs, fLists, f_todo, f_thread, f_delivered, f_result>>

\* ... returns a failure: return []
HistoryCallFails ==
    /\ f_pc = "history_call"
    /\ f_pc' = "done"
    /\ f_result' = Returned(<<>>)
    /\ UNCHANGED <<fArgs, fLists, f_pages, f_todo, f_thread, f_delivered>>

\* slack_request raises (see RequestOtherFailure): nothing here catches it
FetchCallRaises ==
    /\ f_pc \in {"history_call", "replies_call"}
    /\ f_pc' = "done"
    /\ f_result' = Raised
    /\ UNCHANGED <<fArgs, fLists, f_pages, f_todo, f_thread, f_delivered>>

\* the history loop has a further message to handle
InHistoryPage ==
    /\ f_pc = "history_page"
    /\ f_delivered < MaxDelivered

\* one iteration of `for msg in result.get("messages", [])`, history phase,
\* on the message msg
HistoryMessageIs(msg) ==
    /\ HistoryMayReturn(msg, HistoryParams(f_oldest, f_latest))
    /\ f_thread_parents' = HistoryThreadParents(f_thread_parents, msg)
    /\ IF HistoryCollects(msg, f_seen_ts)
       THEN /\ f_seen_ts' = f_seen_ts \cup {msg.ts}
            /\ f_user_messages' = Append(f_user_messages, HistoryEntry(msg))
       ELSE UNCHANGED <<f_seen_ts, f_user_messages>>
    /\ f_expected' =
         IF msg.user = Me /\ msg.subtype \notin SystemSubtypes
         THEN f_expected \cup {msg.ts} ELSE f_expected
    /\ f_dups' =
         IF msg.user = Me /\ msg.ts \in f_seen_ts
         THEN f_dups \cup {"history"} ELSE f_dups
    /\ f_delivered' = f_delivered + 1
    /\ UNCHANGED <<fArgs, f_pc, f_pages, f_todo, f_thread, f_result>>

HistoryMessage == InHistoryPage /\ \E msg \in Messages : HistoryMessageIs(msg)

\* the page is exhausted and carries a next_cursor: sleep, next page
HistoryNextPage ==
    /\ f_pc = "history_page"
    /\ f_pages < MaxPages
    /\ f_pc' = "history_call"
    /\ UNCHANGED <<fArgs, fLists, f_pages, f_todo, f_thread, f_delivered, f_result>>

\* the page is exhausted and carries no cursor: on to the threads
HistoryLastPage ==
    /\ f_pc = "history_page"
    /\ f_pc' = "threads"
    /\ f_todo' = f_thread_parents
    /\ UNCHANGED <<fArgs, fLists, f_pages, f_thread, f_delivered, f_result>>

\* `for thread_ts in thread_parents`: a set, visited in no particular order
ThreadNext ==
    /\ f_pc = "threads"
    /\ \E t \in f_todo :
        /\ f_thread' = t
        /\ f_todo' = f_todo \ {t}
    /\ f_pc' = "replies_call"
    /\ f_pages' = 0
    /\ UNCHANGED <<fArgs, fLists, f_delivered, f_result>>

\* return user_messages
ThreadsDone ==
    /\ f_pc = "threads"
    /\ f_todo = {}
    /\ f_pc' = "done"
    /\ f_result' = Returned(f_user_messages)
    /\ UNCHANGED <<fArgs, fLists, f_pages, f_todo, f_thread, f_delivered>>

\* slack_request("conversations.replies", ...) returns a page
RepliesCallOk ==
    /\ f_pc = "replies_call"
    /\ f_pc' = "replies_page"
    /\ f_pages' = f_pages + 1
    /\ UNCHANGED <<fArgs, fLists, f_todo, f_thread, f_delivered, f_result>>

\* ... returns a failure: break, next thread
RepliesCallFails ==
    /\ f_pc = "replies_call"
    /\ f_pc' = "threads"
    /\ UNCHANGED <<fArgs, fLists, f_pages, f_todo, f_thread, f_delivered, f_result>>

\* one iteration of `for msg in result.get("messages", [])`, threads phase
RepliesMessage ==
    /\ f_pc = "replies_page"
    /\ f_delivered < MaxDelivered
    /\ f_delivered' = f_delivered + 1
    /\ \E msg \in Messages :
        /\ f_expected' =
             IF /\ msg.user = Me
                /\ msg.ts # f_thread
                /\ InWindow(msg.ts, f_oldest, f_latest)
             THEN f_expected \cup {msg.ts} ELSE f_expected
        /\ f_dups' =
             IF msg.user = Me /\ msg.ts \in f_seen_ts
             THEN f_dups \cup {IF msg.ts = f_thread THEN "root" ELSE "replies"}
             ELSE f_dups
        /\ IF RepliesSkips(msg, f_thread, f_seen_ts)
           THEN UNCHANGED <<f_seen_ts, f_user_messages, f_pc, f_result>>
           ELSE IF RepliesWindowRaises(msg, f_oldest, f_latest)
           THEN /\ f_pc' = "done"
                /\ f_result' = Raised
                /\ UNCHANGED <<f_seen_ts, f_user_messages>>
           ELSE IF RepliesOutsideWindow(msg, f_oldest, f_latest)
           THEN UNCHANGED <<f_seen_ts, f_user_messages, f_pc, f_result>>
           ELSE /\ f_seen_ts' = f_seen_ts \cup {msg.ts}
                /\ f_user_messages' = Append(f_user_messages, RepliesEntry(msg, f_thread))
                /\ UNCHANGED <<f_pc, f_result>>
    /\ UNCHANGED <<fArgs, f_thread_parents, f_pages, f_todo, f_thread>>

RepliesNextPage ==
    /\ f_pc = "replies_page"
    /\ f_pages < MaxPages
    /\ f_pc' = "replies_call"
    /\ UNCHANGED <<fArgs, fLists, f_pages, f_todo, f_thread, f_delivered, f_result>>

RepliesLastPage ==
    /\ f_pc = "replies_page"
    /\ f_pc' = "threads"
    /\ UNCHANGED <<fArgs, fLists, f_pages, f_todo, f_thread, f_delivered, f_result>>

\* every step but the handling of a history message
FetchOtherStep ==
    \/ HistoryCallOk
    \/ HistoryCallFails
    \/ FetchCallRaises
    \/ HistoryNextPage
    \/ HistoryLastPage
    \/ ThreadNext
    \/ ThreadsDone
    \/ RepliesCallOk
    \/ RepliesCallFails
    \/ RepliesMessage
    \/ RepliesNextPage
    \/ RepliesLastPage

fetch_user_messages_api ==
    \/ HistoryCallOk
    \/ HistoryCallFails
    \/ FetchCallRaises
    \/ HistoryMessage
    \/ HistoryNextPage
    \/ HistoryLastPage
    \/ ThreadNext
    \/ ThreadsDone
    \/ RepliesCallOk
    \/ RepliesCallFails
    \/ RepliesMessage
    \/ RepliesNextPage
    \/ RepliesLastPage

\* ========================================================================
\* api_purge, run_purge, api_purge_status
\* ========================================================================
\* uuid4().hex[:8]: identifiers are fresh; the model follows the jobs of JobIds
JobIds == {"j1"}

ChTypes == <<"public_channel", "private_channel", "mpim", "im">>

\* the channel objects of the workspace; conversations.list returns a channel
\* under its own type only
Channels ==
    {[id |-> "C1", type |-> "public_channel", name |-> Some(<<"general">>), user |-> None],
     [id |-> "D1", type |-> "im", name |-> None, user |-> Some("U_other")]}
ChannelIds == {ch.id : ch \in Channels}

\* ch.get("name") or f"DM-{ch.get('user', ch['id'])}"
ConversationName(ch) ==
    IF ch.name # None THEN Get(ch.name)
    ELSE <<"DM-", IF ch.user # None THEN Get(ch.user) ELSE ch.id>>

\* what slack_request("users.info", ...) can answer for the peer of ch
UserInfos(ch) ==
    {[ok |-> FALSE],
     [ok |-> TRUE, real_name |-> <<"real name of", IF ch.user # None THEN Get(ch.user) ELSE ch.id>>]}

\* the name api_conversations resolves for ch, user_info being the answer of
\* its users.info call: ch.get("name"), else the looked-up real_name, else
\* (lookup failed) the user id, else (no user) the channel id
ResolvedName(ch, user_info) ==
    IF ch.name # None THEN Get(ch.name)
    ELSE IF ch.user # None
    THEN IF user_info.ok THEN user_info.real_name ELSE <<Get(ch.user)>>
    ELSE <<ch.id>>

Conversation(ch, ch_type) ==
    [id |-> ch.id, name |-> ConversationName(ch), type |-> ch_type]

\* the lists fetch_user_messages_api can return to run_purge: entries with
\* pairwise different ts (C7_UniqueTs), a ts possibly missing
JobTs == {None, Some(1), Some(2)}
RECURSIVE DistinctSeqs(_, _)
DistinctSeqs(S, n) ==
    IF n = 0 THEN {<<>>}
    ELSE {<<>>} \cup
         UNION {{<<x>> \o rest : rest \in DistinctSeqs(S \ {x}, n - 1)} : x \in S}
FetchResults == DistinctSeqs(JobTs, MaxMessages)

DeleteErrors == {"message_not_found", "max_retries"}

\* A date string of a request is what strptime(date_str, "%Y-%m-%d") makes of
\* it: a day, counted from the epoch, or nothing when the string is no date
\* of that format ("2024-02-30", "yesterday").
DateStrings == {[day |-> Some(1)], [day |-> None]}

\* datetime.strptime raises ValueError
StrptimeRaises(date_str) == date_str.day = None

\* str(dt.timestamp()) of a date string that strptime reads
date_to_ts(date_str, end_of_day) ==
    IF end_of_day THEN Get(date_str.day) * DaySeconds + DaySeconds - 1
    ELSE Get(date_str.day) * DaySeconds

\* the JSON bodies of POST /api/purge; a date that is missing, null or the
\* empty string is None (all three are falsy in the validation chain)
Modes == {None, Some("date"), Some("range"), Some("all"), Some("week")}
Dates == {None} \cup {Some(d) : d \in DateStrings}
PurgeRequests ==
    [mode : Modes, date : Dates, start : Dates, end : Dates,
     dry_run : {None, Some(TRUE), Some(FALSE)},
     channels : {{}, {"C1"}}]

\* data.get("mode", "date")
ModeOf(data) == IF data.mode = None THEN "date" ELSE Get(data.mode)

\* data.get("dry_run", True)
DryRunOf(data) == IF data.dry_run = None THEN TRUE ELSE Get(data.dry_run)

\* the `Validar datas` chain accepts the request
DatesValid(data) ==
    \/ ModeOf(data) = "date" /\ data.date # None
    \/ ModeOf(data) = "range" /\ data.start # None /\ data.end # None
    \/ ModeOf(data) = "all"

\* one of the date_to_ts calls of the chain raises: the branch of the mode is
\* entered with a date string that strptime rejects
DateToTsRaises(data) ==
    \/ /\ ModeOf(data) = "date" /\ data.date # None
       /\ StrptimeRaises(Get(data.date))
    \/ /\ ModeOf(data) = "range" /\ data.start # None /\ data.end # None
       /\ StrptimeRaises(Get(data.start)) \/ StrptimeRaises(Get(data.end))

\* oldest, latest as the chain sets them when no date_to_ts call raises
WindowOf(data) ==
    IF ModeOf(data) = "date" /\ data.date # None
    THEN <<Some(date_to_ts(Get(data.date), FALSE)), Some(date_to_ts(Get(data.date), TRUE))>>
    ELSE IF ModeOf(data) = "range" /\ data.start # None /\ data.end # None
    THEN <<Some(date_to_ts(Get(data.start), FALSE)), Some(date_to_ts(Get(data.end), TRUE))>>
    ELSE <<None, None>>

NewJob(dry_run) ==
    [status |-> "running",
     progress |-> 0,
     total_conversations |-> 0,
     current_conversation |-> <<>>,
     messages_found |-> 0,
     messages_deleted |-> 0,
     errors |-> 0,
     dry_run |-> dry_run,
     log |-> <<>>]

\* the arguments and locals of run_purge as the thread starts; `listed` keeps
\* the length of the enumeration before the filter, `calls` the Slack calls
\* made on conversations, `failed` (while the enumeration runs) the categories
\* whose listing ended on a failed page.  oldest and latest (WindowOf) are only handed on to
\* fetch_user_messages_api, whose calls SpecFetch follows.
NewTask(dry_run, filter_channels) ==
    [pc |-> "start",
     dry_run |-> dry_run,
     filter_channels |-> filter_channels,
     conversations |-> <<>>,
     ch_type |-> 1,
     pages |-> 0,
     i |-> 0,
     messages |-> <<>>,
     k |-> 0,
     listed |-> 0,
     calls |-> {},
     failed |-> {}]

ApiCall(method, channel) == [method |-> method, channel |-> channel]

JobInit ==
    /\ purge_jobs = <<>>
    /\ task = <<>>
    /\ http_resp = NoResp

JobIdle == JobInit

Log(job, entry) == [job EXCEPT !.log = add_log(job.log, entry)]

\* ---- POST /api/purge ---------------------------------------------------
\* the session holds both slack_token and slack_user_id
Authenticated(session) == session.token /\ session.user_id
Sessions == [token : BOOLEAN, user_id : BOOLEAN]

ApiPurgeUnauthenticated ==
    /\ {session \in Sessions : ~Authenticated(session)} # {}
    /\ http_resp' = [status |-> 401]
    /\ UNCHANGED <<purge_jobs, task>>

InvalidRequests == {data \in PurgeRequests : ~DatesValid(data)}
MalformedRequests == {data \in PurgeRequests : DateToTsRaises(data)}

ApiPurgeInvalid ==
    /\ InvalidRequests # {}
    /\ http_resp' = [status |-> 400]
    /\ UNCHANGED <<purge_jobs, task>>

\* date_to_ts raises ValueError, which nothing in api_purge catches: the
\* framework answers 500 and no job is created
ApiPurgeRaises ==
    /\ MalformedRequests # {}
    /\ http_resp' = [status |-> 500]
    /\ UNCHANGED <<purge_jobs, task>>

ApiPurgeAccepted ==
    \E job_id \in JobIds \ DOMAIN purge_jobs, session \in Sessions, data \in PurgeRequests :
        /\ Authenticated(session)
        /\ DatesValid(data)
        /\ ~DateToTsRaises(data)
        /\ purge_jobs' = purge_jobs @@ (job_id :> NewJob(DryRunOf(data)))
        /\ task' = task @@ (job_id :> NewTask(DryRunOf(data), data.channels))
        /\ http_resp' = [status |-> 200, job_id |-> job_id]

\* ---- POST /api/purge, request by request -------------------------------
\* the status api_purge answers a request with, in the order of its tests
ApiPurgeStatusCode(session, data) ==
    IF ~Authenticated(session) THEN 401
    ELSE IF DateToTsRaises(data) THEN 500
    ELSE IF ~DatesValid(data) THEN 400
    ELSE 200

\* the identifiers SpecPurge draws fresh job ids from
StoreIds == {"j1", "j2"}

\* the response, with the request it answers
Answer(code, session, data) == [status |-> code, session |-> session, data |-> data]

\* the whole handler on one request, taken up when the response to the one
\* before has left
api_purge ==
    /\ http_resp = NoResp
    /\ \E session \in Sessions, data \in PurgeRequests :
        IF ApiPurgeStatusCode(session, data) = 200
        THEN \E job_id \in StoreIds \ DOMAIN purge_jobs :
                /\ purge_jobs' = purge_jobs @@ (job_id :> NewJob(DryRunOf(data)))
                /\ task' = task @@ (job_id :> NewTask(DryRunOf(data), data.channels))
                /\ http_resp' = Answer(200, session, data)
        ELSE /\ http_resp' = Answer(ApiPurgeStatusCode(session, data), session, data)
             /\ UNCHANGED <<purge_jobs, task>>

\* return jsonify(...): the response leaves the handler
ApiPurgeReturns ==
    /\ http_resp # NoResp
    /\ http_resp' = NoResp
    /\ UNCHANGED <<purge_jobs, task>>

\* ---- run_purge ---------------------------------------------------------
\* a step of the thread of job j: the job record and the locals after it
Step(j, job, t) ==
    /\ purge_jobs' = [purge_jobs EXCEPT ![j] = job]
    /\ task' = [task EXCEPT ![j] = t]
    /\ http_resp' = NoResp

At(j, pc) == j \in DOMAIN task /\ task[j].pc = pc

\* except Exception as e: job["status"] = "error" (the log line follows)
Fails(j, t) ==
    Step(j, [purge_jobs[j] EXCEPT !.status = "error"], [t EXCEPT !.pc = "log_fatal"])

\* add_log(job, "Buscando conversas...")
RunStart(j) ==
    /\ At(j, "start")
    /\ Step(j, Log(purge_jobs[j], "start"),
               [task[j] EXCEPT !.pc = "list_call"])

\* slack_request("conversations.list", ...) returns a page; the pages of a
\* category are counted up to MaxPages
ListCallOk(j) ==
    /\ At(j, "list_call")
    /\ Step(j, purge_jobs[j],
               [task[j] EXCEPT !.pc = "list_page", !.pages = Min(@ + 1, MaxPages)])

\* (faulty variant: the same category is listed again)
NextChType_Stays(t) == [t EXCEPT !.pages = 0, !.pc = "list_call"]

\* the loops over ch_type: after the last one, the filter
NextChType(t) ==
    IF t.ch_type < Len(ChTypes)
    THEN [t EXCEPT !.ch_type = @ + 1, !.pages = 0, !.pc = "list_call"]
    ELSE [t EXCEPT !.pc = "filter"]

\* (faulty variant: a failed page ends the whole enumeration)
ListCallFails_EndsEnumeration(j) ==
    /\ At(j, "list_call")
    /\ Step(j, purge_jobs[j],
               [task[j] EXCEPT !.failed = @ \cup {task[j].ch_type}, !.pc = "filter"])

\* ... returns a failure: break, next ch_type
ListCallFails(j) ==
    /\ At(j, "list_call")
    /\ Step(j, purge_jobs[j],
               NextChType([task[j] EXCEPT !.failed = @ \cup {task[j].ch_type}]))

\* ... raises
ListCallRaises(j) ==
    /\ At(j, "list_call")
    /\ Fails(j, task[j])

\* one iteration of `for ch in result.get("channels", [])`
ListChannel(j) ==
    /\ At(j, "list_page")
    /\ Len(task[j].conversations) < MaxConversations
    /\ \E ch \in Channels :
        /\ ch.type = ChTypes[task[j].ch_type]
        /\ Step(j, purge_jobs[j],
                   [task[j] EXCEPT !.conversations =
                       Append(@, Conversation(ch, ChTypes[task[j].ch_type]))])

\* the page carries a next_cursor: `while True` goes round, as often as the
\* provider hands out a cursor
ListNextPage(j) ==
    /\ At(j, "list_page")
    /\ Step(j, purge_jobs[j], [task[j] EXCEPT !.pc = "list_call"])

\* the page carries no cursor: break, next ch_type
ListLastPage(j) ==
    /\ At(j, "list_page")
    /\ Step(j, purge_jobs[j], NextChType(task[j]))

\* (faulty variant: the filter is not applied)
FilterConversations_All(conversations, filter_channels) == conversations

\* if filter_channels: conversations = [c for c in conversations if c["id"] in ...]
FilterConversations(conversations, filter_channels) ==
    IF filter_channels # {}
    THEN SelectSeq(conversations, LAMBDA c : c.id \in filter_channels)
    ELSE conversations

\* the filter, job["total_conversations"] = len(conversations), the count line
RunFilter(j) ==
    /\ At(j, "filter")
    /\ LET kept == FilterConversations(task[j].conversations, task[j].filter_channels)
       IN  Step(j, Log([purge_jobs[j] EXCEPT !.total_conversations = Len(kept)],
                       "count"),
                   [task[j] EXCEPT !.conversations = kept, !.pc = "conv_next",
                                   !.listed = Len(task[j].conversations),
                                   !.failed = {}])

\* (faulty variant: progress is the index of the conversation)
Progress_Index(i) == i

\* job["progress"] = i + 1
Progress(i) == i + 1

\* for i, conv in enumerate(conversations): progress and current_conversation
ConvNext(j) ==
    /\ At(j, "conv_next")
    /\ task[j].i < Len(task[j].conversations)
    /\ LET conv == task[j].conversations[task[j].i + 1]
       IN  Step(j, [purge_jobs[j] EXCEPT !.progress = Progress(task[j].i),
                                         !.current_conversation = conv.name],
                   [task[j] EXCEPT !.pc = "fetch"])

\* inside fetch_user_messages_api a history or replies page carries a
\* next_cursor: time.sleep(RATE_LIMIT_FETCH) ...
FetchNextPage(j) ==
    /\ At(j, "fetch")
    /\ LET conv == task[j].conversations[task[j].i + 1]
       IN  Step(j, purge_jobs[j],
                [task[j] EXCEPT !.calls = @ \cup {ApiCall("conversations.history", conv.id)},
                                !.pc = "fetch_sleep"])

\* ... and its `while True` goes round to the next call
FetchNextCall(j) ==
    /\ At(j, "fetch_sleep")
    /\ Step(j, purge_jobs[j], [task[j] EXCEPT !.pc = "fetch"])

\* fetch_user_messages_api returns a list: nothing found, or the summary line
\* and messages_found
FetchReturns(j) ==
    /\ At(j, "fetch")
    /\ LET conv == task[j].conversations[task[j].i + 1]
           called == task[j].calls \cup {ApiCall("conversations.history", conv.id)}
       IN  \E messages \in FetchResults :
            IF messages = <<>>
            THEN Step(j, purge_jobs[j],
                      [task[j] EXCEPT !.calls = called, !.i = @ + 1, !.pc = "conv_next"])
            ELSE Step(j, [Log(purge_jobs[j], "summary")
                            EXCEPT !.messages_found = @ + Len(messages)],
                      [task[j] EXCEPT !.calls = called, !.messages = messages,
                                      !.k = 0, !.pc = "message"])

\* fetch_user_messages_api raises (FetchCallRaises, RepliesWindowRaises)
FetchRaises(j) ==
    /\ At(j, "fetch")
    /\ LET conv == task[j].conversations[task[j].i + 1]
       IN  Fails(j, [task[j] EXCEPT !.calls =
                        @ \cup {ApiCall("conversations.history", conv.id)}])

\* the message the inner loop is at, and the locals after its iteration
Msg(t) == t.messages[t.k + 1]
AfterMessage(t) ==
    IF t.k + 1 < Len(t.messages)
    THEN [t EXCEPT !.k = @ + 1]
    ELSE [t EXCEPT !.k = 0, !.messages = <<>>, !.i = @ + 1, !.pc = "conv_next"]

\* datetime.fromtimestamp(float(ts)) on a ts that is no number
MessageMalformed(j) ==
    /\ At(j, "message")
    /\ ~IsNumber(Msg(task[j]))
    /\ Fails(j, task[j])

\* (faulty variant: the dry-run branch is never taken)
SimulatesDelete_Never(dry_run) == FALSE

\* if dry_run:
SimulatesDelete(dry_run) == dry_run

\* the dry-run branch: count and preview, no call
MessagePreview(j) ==
    /\ At(j, "message")
    /\ IsNumber(Msg(task[j]))
    /\ SimulatesDelete(task[j].dry_run)
    /\ Step(j, Log([purge_jobs[j] EXCEPT !.messages_deleted = @ + 1],
                   "preview"),
               AfterMessage(task[j]))

DeleteCalled(j) ==
    [task[j] EXCEPT !.calls =
        @ \cup {ApiCall("chat.delete", task[j].conversations[task[j].i + 1].id)}]

\* chat.delete succeeds (the time.sleep(RATE_LIMIT_DELETE) that follows either
\* outcome changes no state and is part of the same step)
MessageDeleted(j) ==
    /\ At(j, "message")
    /\ IsNumber(Msg(task[j]))
    /\ ~SimulatesDelete(task[j].dry_run)
    /\ Step(j, Log([purge_jobs[j] EXCEPT !.messages_deleted = @ + 1],
                   "deleted"),
               AfterMessage(DeleteCalled(j)))

\* the line add_log gets for a failed delete: it carries result["error"]
FailureLine(error) ==
    IF error = "max_retries" THEN "failed: max_retries" ELSE "failed: message_not_found"

\* (faulty variant: a failed delete is treated as fatal)
DeleteFailed_Aborts(job, ts, error) ==
    [Log([job EXCEPT !.errors = @ + 1], FailureLine(error)) EXCEPT !.status = "error"]

\* (faulty variant: the failure is logged but not counted)
DeleteFailed_Uncounted(job, ts, error) == Log(job, FailureLine(error))

\* else: job["errors"] += 1 and the failure line
DeleteFailed(job, ts, error) ==
    Log([job EXCEPT !.errors = @ + 1], FailureLine(error))

\* chat.delete returns a failure
MessageDeleteFails(j) ==
    /\ At(j, "message")
    /\ IsNumber(Msg(task[j]))
    /\ ~SimulatesDelete(task[j].dry_run)
    /\ \E error \in DeleteErrors :
        Step(j, DeleteFailed(purge_jobs[j], Msg(task[j]), error),
                AfterMessage(DeleteCalled(j)))

\* slack_request("chat.delete", ...) raises
MessageDeleteRaises(j) ==
    /\ At(j, "message")
    /\ IsNumber(Msg(task[j]))
    /\ ~SimulatesDelete(task[j].dry_run)
    /\ Fails(j, DeleteCalled(j))

\* job["status"] = "completed"
RunCompleted(j) ==
    /\ At(j, "conv_next")
    /\ task[j].i >= Len(task[j].conversations)
    /\ Step(j, [purge_jobs[j] EXCEPT !.status = "completed"],
               [task[j] EXCEPT !.pc = "log_done"])

\* (faulty variant: the final add_log raises inside the try block)
FinalLogRaises_Yes == TRUE

\* can the final add_log (an f-string of two counters) raise: it cannot
FinalLogRaises == FALSE

\* add_log(job, "... concluído: ...")
RunLogDone(j) ==
    /\ At(j, "log_done")
    /\ IF FinalLogRaises
       THEN Fails(j, task[j])
       ELSE Step(j, Log(purge_jobs[j], "done"), [task[j] EXCEPT !.pc = "exit"])

\* add_log(job, "Erro fatal: ...")
RunLogFatal(j) ==
    /\ At(j, "log_fatal")
    /\ Step(j, Log(purge_jobs[j], "fatal"),
               [task[j] EXCEPT !.pc = "exit"])

run_purge(j) ==
    \/ RunStart(j)
    \/ ListCallOk(j)
    \/ ListCallFails(j)
    \/ ListCallRaises(j)
    \/ ListChannel(j)
    \/ ListNextPage(j)
    \/ ListLastPage(j)
    \/ RunFilter(j)
    \/ ConvNext(j)
    \/ FetchNextPage(j)
    \/ FetchNextCall(j)
    \/ FetchReturns(j)
    \/ FetchRaises(j)
    \/ MessageMalformed(j)
    \/ MessagePreview(j)
    \/ MessageDeleted(j)
    \/ MessageDeleteFails(j)
    \/ MessageDeleteRaises(j)
    \/ RunCompleted(j)
    \/ RunLogDone(j)
    \/ RunLogFatal(j)

\* ========================================================================
\* Specifications
\* ========================================================================
InitReq == RqInit /\ LgIdle /\ FIdle /\ JobIdle
NextReq == slack_request /\ UNCHANGED <<lgVars, fVars, f_discovery, jobVars>>
SpecReq == InitReq /\ [][NextReq]_vars

InitLog == LgInit /\ RqIdle /\ FIdle /\ JobIdle
NextLog ==
    /\ AddLogAppend \/ AddLogTruncate \/ ApiPurgeStatus
    /\ UNCHANGED <<rqVars, fVars, f_discovery, jobVars>>
SpecLog == InitLog /\ [][NextLog]_vars

InitFetch == FInit /\ RqIdle /\ LgIdle /\ JobIdle
NextFetch == fetch_user_messages_api /\ UNCHANGED <<rqVars, lgVars, jobVars, f_discovery>>
SpecFetch == InitFetch /\ [][NextFetch]_vars

\* SpecFetch with the order of discovery of the thread parents kept
NextOrder ==
    /\ \/ /\ InHistoryPage
          /\ \E msg \in Messages :
                /\ HistoryMessageIs(msg)
                /\ f_discovery' = Discovered(f_discovery, f_thread_parents, msg)
       \/ FetchOtherStep /\ UNCHANGED f_discovery
    /\ UNCHANGED <<rqVars, lgVars, jobVars>>
SpecOrder == InitFetch /\ [][NextOrder]_vars

InitPurge == JobInit /\ RqIdle /\ LgIdle /\ FIdle
NextPurge == (api_purge \/ ApiPurgeReturns) /\ UNCHANGED <<rqVars, lgVars, fVars, f_discovery>>
SpecPurge == InitPurge /\ [][NextPurge]_vars

Init == JobInit /\ RqIdle /\ LgIdle /\ FIdle
Next ==
    /\ \/ ApiPurgeUnauthenticated
       \/ ApiPurgeInvalid
       \/ ApiPurgeRaises
       \/ ApiPurgeAccepted
       \/ \E j \in JobIds : run_purge(j)
    /\ UNCHANGED <<rqVars, lgVars, fVars, f_discovery>>
Spec == Init /\ [][Next]_vars

\* the thread of a started job is scheduled again and again and every Slack
\* call it makes is answered
Fairness ==
    \A j \in JobIds : WF_vars(run_purge(j) /\ UNCHANGED <<rqVars, lgVars, fVars, f_discovery>>)
\* the job alone: refused requests touch neither the store nor the thread
NextLive ==
    /\ \/ ApiPurgeAccepted
       \/ \E j \in JobIds : run_purge(j)
    /\ UNCHANGED <<rqVars, lgVars, fVars, f_discovery>>
SpecLive == Init /\ [][NextLive]_vars /\ Fairness

\* ========================================================================
\* Properties
\* ========================================================================
Terminal == {"completed", "error"}
Contains(log, line) == \E p \in 1..Len(log) : log[p] = line

\* C1: a job is created with status "running", and its status changes only
\* from "running" to "completed" or from "running" to "error": a terminal
\* status is never left.
C1_StatusTransitions ==
    [][\A j \in DOMAIN purge_jobs' :
        IF j \in DOMAIN purge_jobs
        THEN purge_jobs'[j].status # purge_jobs[j].status =>
                /\ purge_jobs[j].status = "running"
                /\ purge_jobs'[j].status \in Terminal
        ELSE purge_jobs'[j].status = "running"]_vars

\* C1 witness: run_purge ran to its end on a completed job
C1_Witness ==
    \E j \in DOMAIN purge_jobs :
        /\ purge_jobs[j].status = "completed"
        /\ task[j].pc = "exit"

\* C2: once the status of a job is "completed" or "error", no step changes
\* any field of the job record.
C2_TerminalJobFrozen ==
    [][\A j \in DOMAIN purge_jobs :
        purge_jobs[j].status \in Terminal => purge_jobs'[j] = purge_jobs[j]]_vars

\* C3: a dry-run job makes no chat.delete call, logs no deletion and no
\* failure, keeps errors at 0, never counts more deleted than found, and when
\* it is completed messages_deleted = messages_found.
C3_DryRunDeletesNothing ==
    \A j \in DOMAIN purge_jobs :
        purge_jobs[j].dry_run =>
            /\ \A c \in task[j].calls : c.method # "chat.delete"
            /\ \A p \in 1..Len(purge_jobs[j].log) :
                 purge_jobs[j].log[p] \notin
                    {"deleted", "failed: max_retries", "failed: message_not_found"}
            /\ purge_jobs[j].errors = 0
            /\ purge_jobs[j].messages_deleted <= purge_jobs[j].messages_found
            /\ purge_jobs[j].status = "completed" =>
                 purge_jobs[j].messages_deleted = purge_jobs[j].messages_found

\* C3 witness: a completed dry run that previewed two messages or more
C3_Witness ==
    \E j \in DOMAIN purge_jobs :
        /\ purge_jobs[j].dry_run
        /\ purge_jobs[j].status = "completed"
        /\ purge_jobs[j].messages_found >= 2
        /\ purge_jobs[j].messages_deleted = purge_jobs[j].messages_found
        /\ Contains(purge_jobs[j].log, "preview")

\* C4: with a non-empty filter_channels every call run_purge makes on a
\* conversation targets a member of it; the filter step sets
\* total_conversations to the number of enumerated conversations whose id is
\* in the subset, all of them when the subset is empty; and a completed job
\* has visited every conversation that was kept.
C4_OnlyFilteredChannels ==
    /\ [](\A j \in DOMAIN task :
            /\ task[j].filter_channels # {} =>
                 \A c \in task[j].calls : c.channel \in task[j].filter_channels
            /\ purge_jobs[j].status = "completed" =>
                 /\ task[j].i = Len(task[j].conversations)
                 /\ \A n \in 1..Len(task[j].conversations) :
                      ApiCall("conversations.history", task[j].conversations[n].id)
                          \in task[j].calls)
    /\ [][\A j \in DOMAIN task :
            (task[j].pc = "filter" /\ task'[j].pc # "filter") =>
                LET all == task[j].conversations
                    wanted == {n \in 1..Len(all) :
                                  \/ task[j].filter_channels = {}
                                  \/ all[n].id \in task[j].filter_channels}
                IN  /\ purge_jobs'[j].total_conversations = Cardinality(wanted)
                    /\ Len(task'[j].conversations) = Cardinality(wanted)
                    /\ task[j].filter_channels = {} => task'[j].conversations = all]_vars

\* C4 witness: two conversations were enumerated, the subset kept one, and
\* the job completed after deleting in it
C4_Witness ==
    \E j \in DOMAIN task :
        /\ task[j].filter_channels = {"C1"}
        /\ task[j].listed = 2
        /\ purge_jobs[j].total_conversations = 1
        /\ purge_jobs[j].status = "completed"
        /\ task[j].calls = {ApiCall("conversations.history", "C1"),
                            ApiCall("chat.delete", "C1")}

FailureLines == {FailureLine(e) : e \in DeleteErrors}

\* C5: the step in which a chat.delete failure is logged adds exactly 1 to
\* errors, leaves messages_deleted alone, leaves the status "running" and
\* moves the task on to the next message or the next conversation.
C5_DeleteFailureIsCounted ==
    [][\A j \in DOMAIN purge_jobs :
        (/\ Len(purge_jobs'[j].log) = Len(purge_jobs[j].log) + 1
         /\ purge_jobs'[j].log[Len(purge_jobs'[j].log)] \in FailureLines)
        => /\ purge_jobs'[j].errors = purge_jobs[j].errors + 1
           /\ purge_jobs'[j].messages_deleted = purge_jobs[j].messages_deleted
           /\ purge_jobs[j].status = "running"
           /\ purge_jobs'[j].status = "running"
           /\ \/ task'[j].pc = "message" /\ task'[j].k = task[j].k + 1
                 /\ task'[j].i = task[j].i
              \/ task'[j].pc = "conv_next" /\ task'[j].i = task[j].i + 1]_vars

\* C5 witness: a delete failed with max_retries, a later delete succeeded,
\* and the job completed with the failure counted
C5_Witness ==
    \E j \in DOMAIN purge_jobs :
        /\ ~purge_jobs[j].dry_run
        /\ purge_jobs[j].status = "completed"
        /\ purge_jobs[j].errors = 1
        /\ purge_jobs[j].messages_deleted = 1
        /\ purge_jobs[j].messages_found = 2
        /\ \E p, q \in 1..Len(purge_jobs[j].log) :
            /\ p < q
            /\ purge_jobs[j].log[p] = "failed: max_retries"
            /\ purge_jobs[j].log[q] = "deleted"


RequestsIssued == Len(SelectSeq(rq_trace, LAMBDA e : e.ev = "request"))
IsRateLimitSignal(e) == e.ev = "request" /\ e.resp.kind \in {"ratelimited", "http429"}

\* C6: one slack_request call issues at most `retries` requests, whatever the
\* mix of in-band "ratelimited" and HTTP 429 answers; every rate-limit signal
\* is followed at once, before any further request, by a sleep of the
\* Retry-After the server gave; and a call whose every attempt (all `retries`
\* of them) was rate-limited returns {ok: false, error: "max_retries"}.
C6_BoundedRetries ==
    /\ RequestsIssued <= rq_retries
    /\ RequestsIssued = rq_attempt
    /\ \A i \in 1..Len(rq_trace) :
        IsRateLimitSignal(rq_trace[i]) =>
            /\ i < Len(rq_trace)
            /\ rq_trace[i + 1].ev = "sleep"
            /\ rq_trace[i].resp.hdr # None =>
                 rq_trace[i + 1].secs = Get(rq_trace[i].resp.hdr)
    /\ (/\ rq_result # NoResult
        /\ \A i \in 1..Len(rq_trace) :
             rq_trace[i].ev = "request" => IsRateLimitSignal(rq_trace[i]))
       => /\ rq_result = Returned([ok |-> FALSE, error |-> "max_retries"])
          /\ RequestsIssued = rq_retries

\* C6 witness: the default three attempts, rate-limited in band and by 429,
\* each with its own wait, ended in max_retries
C6_Witness ==
    /\ rq_retries = DefaultRetries
    /\ rq_result = Returned([ok |-> FALSE, error |-> "max_retries"])
    /\ RequestsIssued = DefaultRetries
    /\ \E i, j \in 1..Len(rq_trace) :
        /\ rq_trace[i] = RequestEv([kind |-> "ratelimited", hdr |-> Some(5)])
        /\ rq_trace[i + 1] = SleepEv(5)
        /\ rq_trace[j] = RequestEv([kind |-> "http429", hdr |-> Some(1)])
        /\ rq_trace[j + 1] = SleepEv(1)

NoDuplicateTs(list) ==
    \A i, j \in 1..Len(list) : i # j => list[i].ts # list[j].ts

ReturnedList == f_result # NoResult /\ ~f_result.raised

TsOf(list) == {list[i].ts : i \in 1..Len(list)}

\* C7: the list fetch_user_messages_api builds, and the list it returns, never
\* holds two entries with the same ts, whatever the provider's pages repeat.
C7_UniqueTs ==
    /\ NoDuplicateTs(f_user_messages)
    /\ f_seen_ts = TsOf(f_user_messages)
    /\ ReturnedList => NoDuplicateTs(f_result.value)

\* C7 witness: an authored thread root was collected from the history, came
\* again in the replies of its own thread, and the call returned it once
C7_Witness ==
    /\ ReturnedList
    /\ "root" \in f_dups
    /\ Len(f_result.value) = 1
    /\ f_result.value[1].ts = f_thread

\* C8: with oldest and latest given, every collected message lies in
\* [oldest, latest], whichever phase collected it, and the returned list holds
\* nothing else; and no authored message the provider delivered inside the
\* window, bounds included, is left out of the collected list (a history
\* message unless its subtype is a system one, a reply unless it is the root
\* of the thread being read).
C8_InclusiveWindow ==
    (f_oldest # None /\ f_latest # None) =>
        /\ \A i \in 1..Len(f_user_messages) :
             InWindow(f_user_messages[i].ts, f_oldest, f_latest)
        /\ f_expected \subseteq TsOf(f_user_messages)
        /\ ReturnedList =>
             \/ f_result.value = f_user_messages
             \/ f_result.value = <<>>

\* C8 witness: a message at ts = oldest from the history and a reply at
\* ts = latest from its thread are both returned
C8_Witness ==
    /\ f_oldest # None /\ f_latest # None
    /\ ReturnedList
    /\ Len(f_result.value) = 2
    /\ f_result.value[1] = [ts |-> f_oldest, thread_ts |-> None, is_thread_reply |-> FALSE]
    /\ f_result.value[2] = [ts |-> f_latest, thread_ts |-> f_oldest, is_thread_reply |-> TRUE]
    /\ f_oldest # f_latest

\* C9: the log of a job never holds more than 500 entries, in any state of the
\* job's task and in any snapshot a status read returns.
C9_LogNeverExceedsCap ==
    /\ Len(lg_log) <= LogCap
    /\ lg_resp.status = 200 => Len(lg_resp.log) <= LogCap

\* C10: after n completed add_log calls the log is the last min(n, 500)
\* messages, in the order they were appended.
C10_LogIsLastEntries ==
    lg_pc = "idle" =>
        LET kept == Min(lg_calls, LogCap)
        IN  lg_log = [i \in 1..kept |-> lg_calls - kept + i]

\* C10 witness: more than 500 calls were made and the oldest entries are gone
C10_Witness ==
    /\ lg_pc = "idle"
    /\ lg_calls > LogCap
    /\ Len(lg_log) = LogCap
    /\ lg_log[1] = lg_calls - LogCap + 1

\* C11: a status read of an existing job with last_log = N >= 0 returns
\* min(N, stored length) entries, the last ones of the stored log in order,
\* N = 0 included; a read that ends in not-found carries no snapshot.
C11_StatusReturnsLastN ==
    /\ (lg_resp.status = 200 /\ lg_resp.last_n >= 0) =>
          /\ Len(lg_resp.log) = Min(lg_resp.last_n, Len(lg_log))
          /\ lg_resp.log =
                SubSeq(lg_log, Len(lg_log) - Len(lg_resp.log) + 1, Len(lg_log))
    /\ lg_resp.status = 404 => DOMAIN lg_resp = {"status"}

\* C12: a start-purge request is accepted exactly when the session holds a
\* credential and an identity and the body is mode date with a date, mode
\* range with start and end, or mode all; every other request is answered
\* 401 or 400 and changes neither the job store nor the tasks; an accepted
\* request inserts exactly one job, "running" with all counters 0.
C12_AcceptedExactlyWhenValid ==
    /\ [](http_resp # NoResp =>
            LET session == http_resp.session
                data == http_resp.data
                mode == ModeOf(data)
                present == session.token /\ session.user_id
                wellFormed ==
                    \/ mode = "date" /\ data.date # None
                    \/ mode = "range" /\ data.start # None /\ data.end # None
                    \/ mode = "all"
            IN  /\ http_resp.status = 200 <=> (present /\ wellFormed)
                /\ http_resp.status # 200 => http_resp.status \in {401, 400})
    /\ [][IF http_resp'.status = 200
          THEN \E j \in DOMAIN purge_jobs' \ DOMAIN purge_jobs :
                /\ DOMAIN purge_jobs' = DOMAIN purge_jobs \cup {j}
                /\ \A k \in DOMAIN purge_jobs : purge_jobs'[k] = purge_jobs[k]
                /\ purge_jobs'[j].status = "running"
                /\ purge_jobs'[j].progress = 0
                /\ purge_jobs'[j].total_conversations = 0
                /\ purge_jobs'[j].messages_found = 0
                /\ purge_jobs'[j].messages_deleted = 0
                /\ purge_jobs'[j].errors = 0
                /\ purge_jobs'[j].log = <<>>
                /\ DOMAIN task' = DOMAIN task \cup {j}
          ELSE UNCHANGED <<purge_jobs, task>>]_vars

\* the enumeration and the filter are over: total_conversations has been set
TotalSet(t) == t.pc \notin {"start", "list_call", "list_page", "filter"}

\* C13: the progress of a job never decreases from one state to the next;
\* once total_conversations has been set, 0 <= progress <= total_conversations
\* in every state; and a completed job has progress = total_conversations.
C13_ProgressMonotone ==
    /\ [](\A j \in DOMAIN purge_jobs :
            /\ TotalSet(task[j]) =>
                 /\ 0 <= purge_jobs[j].progress
                 /\ purge_jobs[j].progress <= purge_jobs[j].total_conversations
            /\ purge_jobs[j].status = "completed" =>
                 purge_jobs[j].progress = purge_jobs[j].total_conversations)
    /\ [][\A j \in DOMAIN purge_jobs :
            purge_jobs'[j].progress >= purge_jobs[j].progress]_vars

\* C13 witness: a job with two conversations completed, its progress at 2
C13_Witness ==
    \E j \in DOMAIN purge_jobs :
        /\ purge_jobs[j].status = "completed"
        /\ purge_jobs[j].total_conversations = 2
        /\ purge_jobs[j].progress = 2

\* a paginated listing of job j goes on to a further page
MorePages == \E j \in JobIds : ListNextPage(j) \/ FetchNextPage(j)

\* every listing ends: from some point on no page carries a next_cursor
ListingsEnd == <>[][~MorePages]_vars

JobEnds(j) == j \in DOMAIN purge_jobs /\ purge_jobs[j].status \in Terminal

\* C14: every started job eventually reaches status "completed" or "error",
\* the thread being scheduled fairly and every call being answered.
C14_JobTerminates ==
    \A j \in JobIds : (j \in DOMAIN purge_jobs) ~> JobEnds(j)

\* C14, amended: every started job eventually reaches "completed" or "error",
\* the thread being scheduled fairly and every call being answered, provided
\* every paginated listing ends (the provider stops handing out cursors).
C14_JobTerminatesIfListingsEnd ==
    ListingsEnd => \A j \in JobIds : (j \in DOMAIN purge_jobs) ~> JobEnds(j)

\* C14 witness: the thread of a job that listed both conversations and
\* collected in both has left every loop and ended
C14_Witness ==
    \E j \in DOMAIN purge_jobs :
        /\ JobEnds(j)
        /\ task[j].pc = "exit"
        /\ task[j].listed = 2
        /\ {ApiCall("conversations.history", "C1"),
            ApiCall("conversations.history", "D1")} \subseteq task[j].calls

\* a request that failed otherwise than by a rate-limit signal
IsFailure(e) ==
    e.ev = "request" /\ e.resp.kind \in {"error", "http_error", "exception"}

\* C15: a slack_request attempt that fails otherwise than by a rate-limit
\* signal (an in-band error other than "ratelimited", an HTTP error other than
\* 429, any other transport failure) ends the call at once: nothing follows
\* it, neither a sleep nor another request, and the call returns
\* {ok: false, error: ...}; it never raises.
C15_FailureReturnedOnce ==
    \A i \in 1..Len(rq_trace) :
        IsFailure(rq_trace[i]) =>
            /\ i = Len(rq_trace)
            /\ rq_result # NoResult
            /\ ~rq_result.raised
            /\ rq_result.value.ok = FALSE
            /\ "error" \in DOMAIN rq_result.value

\* C16: no failure while the messages of a conversation are collected sets
\* the job status to "error": neither a step taken inside
\* fetch_user_messages_api (a failed history or replies page, a malformed
\* message in a page) nor the handling of a collected message whose ts is
\* malformed; the job stays "running" and goes on.
C16_CollectionFailureNotFatal ==
    [][\A j \in DOMAIN task :
        (\/ task[j].pc \in {"fetch", "fetch_sleep"}
         \/ task[j].pc = "message" /\ ~IsNumber(Msg(task[j])))
        => purge_jobs'[j].status = "running"]_vars

Enumerating(t) == t.pc \in {"list_call", "list_page"}
IsPrefix(a, b) == Len(a) <= Len(b) /\ SubSeq(b, 1, Len(a)) = a

\* C17: while run_purge enumerates, a failed conversations.list page ends the
\* traversal of its category only: the step keeps the list as it is, leaves
\* the job "running" and moves to the next category in the order public,
\* private, multi-party, direct (to the filter after the last); no step of
\* the enumeration drops a conversation already listed or skips a category;
\* and the filter is reached with all four categories traversed.
C17_FailedPageEndsCategoryOnly ==
    /\ [][\A j \in DOMAIN task :
            /\ (task[j].pc = "list_call" /\ task'[j].failed # task[j].failed) =>
                 /\ task'[j].failed = task[j].failed \cup {task[j].ch_type}
                 /\ task'[j].conversations = task[j].conversations
                 /\ purge_jobs'[j].status = "running"
                 /\ IF task[j].ch_type < Len(ChTypes)
                    THEN /\ task'[j].pc = "list_call"
                         /\ task'[j].ch_type = task[j].ch_type + 1
                    ELSE task'[j].pc = "filter"
            /\ Enumerating(task[j]) =>
                 /\ IsPrefix(task[j].conversations, task'[j].conversations)
                 /\ task'[j].ch_type \in {task[j].ch_type, task[j].ch_type + 1}]_vars
    /\ [](\A j \in DOMAIN task :
            /\ \A c \in task[j].failed : c < task[j].ch_type \/ task[j].pc = "filter"
            /\ task[j].pc = "filter" => task[j].ch_type = Len(ChTypes)
            /\ \A n \in 1..Len(task[j].conversations) :
                 \A m \in 1..Len(task[j].conversations) :
                    (Enumerating(task[j]) /\ n < m) =>
                        \E a, b \in 1..Len(ChTypes) :
                            /\ a <= b
                            /\ ChTypes[a] = task[j].conversations[n].type
                            /\ ChTypes[b] = task[j].conversations[m].type)

\* C17 witness: the listing of the public channels failed after a page that
\* carried C1, the listing of the direct conversations went through, and the
\* enumeration ended with both conversations, the job still running
C17_Witness ==
    \E j \in DOMAIN task :
        /\ task[j].pc = "filter"
        /\ task[j].failed = {1}
        /\ Len(task[j].conversations) = 2
        /\ task[j].conversations[1].id = "C1"
        /\ task[j].conversations[2].id = "D1"
        /\ purge_jobs[j].status = "running"

Position(seq, x) == CHOOSE p \in 1..Len(seq) : seq[p] = x

\* C18: the list of fetch_user_messages_api grows at its end only, so that
\* the history-phase messages come first, in the order the provider returned
\* them, and the replies follow thread by thread; and the thread roots are
\* taken in the order in which the history phase discovered them: each time
\* the loop over the roots takes one, it is the earliest discovered of those
\* not yet taken.
C18_CollectionOrder ==
    [][/\ IsPrefix(f_user_messages, f_user_messages')
       /\ (f_pc = "threads" /\ f_pc' = "replies_call") =>
            \A t \in f_todo' :
                Position(f_discovery, f_thread') < Position(f_discovery, t)]_vars

\* the channel objects that carry no name, and the names a lookup of the
\* peer gives them: the display name, or on failure the raw identifier
Nameless == {ch \in Channels : ch.name = None}
LookedUpNames(ch) == {ResolvedName(ch, user_info) : user_info \in UserInfos(ch)}

\* C19: for every conversation without a name that the enumeration of a
\* purge job lists, a users.info call was issued, and its name is the
\* looked-up display name or, the lookup failing, the raw identifier; no
\* listed conversation has an empty name.
C19_NamelessIsLookedUp ==
    \A j \in DOMAIN task :
        \A n \in 1..Len(task[j].conversations) :
            LET conv == task[j].conversations[n]
            IN  /\ conv.name # <<>>
                /\ \A ch \in Nameless :
                     ch.id = conv.id =>
                        /\ \E c \in task[j].calls : c.method = "users.info"
                        /\ conv.name \in LookedUpNames(ch)

\* C20: in every state of a job messages_deleted + errors <= messages_found;
\* in a completed job the two sides are equal; and the step in which the
\* collection of a conversation returns no message changes none of
\* messages_found, messages_deleted and errors and appends no log line.
C20_CountersBalance ==
    /\ [](\A j \in DOMAIN purge_jobs :
            /\ purge_jobs[j].messages_deleted + purge_jobs[j].errors
                    <= purge_jobs[j].messages_found
            /\ purge_jobs[j].status = "completed" =>
                 purge_jobs[j].messages_deleted + purge_jobs[j].errors
                    = purge_jobs[j].messages_found)
    /\ [][\A j \in DOMAIN task :
            (task[j].pc = "fetch" /\ task'[j].pc = "conv_next") =>
                /\ purge_jobs'[j].messages_found = purge_jobs[j].messages_found
                /\ purge_jobs'[j].messages_deleted = purge_jobs[j].messages_deleted
                /\ purge_jobs'[j].errors = purge_jobs[j].errors
                /\ purge_jobs'[j].log = purge_jobs[j].log]_vars

\* C20 witness: a completed purge of two conversations, one of which held no
\* message and the other one message whose delete failed
C20_Witness ==
    \E j \in DOMAIN purge_jobs :
        /\ ~purge_jobs[j].dry_run
        /\ purge_jobs[j].status = "completed"
        /\ purge_jobs[j].total_conversations = 2
        /\ purge_jobs[j].messages_found = 1
        /\ purge_jobs[j].errors = 1
        /\ purge_jobs[j].messages_deleted = 0
        /\ Len(SelectSeq(purge_jobs[j].log, LAMBDA l : l = "summary")) = 1

====
